---- MODULE Spec2Model ----
(***************************************************************************)
(* A model of the screen toolkit: ANSI style composition                   *)
(* (screen/drawing/style.py), packed ARGB colours and their interpolation  *)
(* (screen/drawing/color.py), and the property declarations of the Stack   *)
(* and Popup controls (screen/controls/stack.py, popup.py) together with   *)
(* the descriptor / dirty-flag protocol they are declared against.         *)
(*                                                                         *)
(* Three specifications share the module:                                  *)
(*   SpecStyle     Style.__or__ and Style.build                            *)
(*   SpecColor     Color.from_argb, the accessors and Color.interpolate    *)
(*   SpecControls  property assignment, measure and render on a tree       *)
(***************************************************************************)
EXTENDS Integers, Sequences, FiniteSets, TLC

VARIABLES
    sx,            \* Style: left operand of x | y
    sy,            \* Style: right operand of x | y (a Style or another object)
    styleReset,    \* Style: the class attribute Style.reset
    sres,          \* Style: outcome of x | y
    sout,          \* Style: characters returned by build() on the result
    ccall,         \* Color: the call being made and its arguments
    cret,          \* Color: what the call returned
    props,         \* Controls: per control, property name -> stored value
    parent,        \* Controls: per control, the back-reference to its parent
    measureDirty,  \* Controls: per control, the measure-dirty flag
    paintDirty,    \* Controls: per control, the paint-dirty flag
    measureCache,  \* Controls: per control, the cached measure result
    renderCache,   \* Controls: per control, the cached render result
    last,          \* Controls: the last operation and what it signalled
    nops           \* Controls: operations performed so far

styleVars == <<sx, sy, styleReset, sres, sout>>
colorVars == <<ccall, cret>>
controlVars == <<props, parent, measureDirty, paintDirty, measureCache,
                 renderCache, last, nops>>
vars == <<styleVars, colorVars, controlVars>>

None == [t |-> "None", v |-> 0]

(***************************************************************************)
(* Generic helpers: Python's sorted(), str(int), str.join, min and max.    *)
(***************************************************************************)
Range(s) == {s[i] : i \in DOMAIN s}

SetMin(S) == CHOOSE m \in S : \A o \in S : m <= o

SetMax(S) == CHOOSE m \in S : \A o \in S : m >= o

RECURSIVE SortedDescending(_)
SortedDescending(S) ==
    IF S = {} THEN <<>>
    ELSE LET m == SetMax(S) IN <<m>> \o SortedDescending(S \ {m})

\* sorted(values): ascending order, one entry per element of the set
RECURSIVE Sorted(_)
Sorted(S) ==
    IF S = {} THEN <<>>
    ELSE LET m == SetMin(S) IN <<m>> \o Sorted(S \ {m})

\* iteration over a set: the order is the interpreter's; one fixed order here,
\* used only where the result does not depend on it (it is fed to set())
RECURSIVE IterSet(_)
IterSet(S) ==
    IF S = {} THEN <<>>
    ELSE LET e == CHOOSE e \in S : TRUE IN <<e>> \o IterSet(S \ {e})

DigitChars == <<"0", "1", "2", "3", "4", "5", "6", "7", "8", "9">>

\* str(n) for an int n >= 0, as a sequence of characters
RECURSIVE Str(_)
Str(n) ==
    IF n < 10 THEN <<DigitChars[n + 1]>>
    ELSE Str(n \div 10) \o <<DigitChars[(n % 10) + 1]>>

\* sep.join(parts), parts a sequence of character sequences
RECURSIVE Join(_, _)
Join(parts, sep) ==
    IF Len(parts) = 0 THEN <<>>
    ELSE IF Len(parts) = 1 THEN parts[1]
    ELSE parts[1] \o sep \o Join(Tail(parts), sep)

(***************************************************************************)
(* Style (screen/drawing/style.py)                                         *)
(***************************************************************************)
MaxStyleArgs == 2

\* class attributes of Style used as style codes: reset, intensity_increased,
\* underline_on, underline_double_on, reset_background_color
reset == 0

StyleCodes == {reset, 1, 4, 21, 49}

\* Style.__init__(*values): self.values = set(values)
StyleInit(values) == [cls |-> "Style", values |-> Range(values)]

\* an operand that is not a Style instance
NotAStyle == [cls |-> "object", values |-> {}]

\* StyleMeta.__new__ on the attribute reset = 0: cls(*0) raises TypeError,
\* so the attribute becomes cls(0)
StyleMetaReset == StyleInit(<<reset>>)

\* Style.__eq__
StyleEq(self, other) == other.cls = self.cls /\ self.values = other.values

\* Style.build
StyleBuild(self) ==
    LET value == Join([i \in 1..Cardinality(self.values) |->
                          Str(Sorted(self.values)[i])], <<";">>)
    IN  <<"ESC", "[">> \o value \o <<"m">>

StyleOrRightOnly(self, other, rst) ==
    IF other.cls # "Style" THEN [kind |-> "NotImplemented", values |-> {}]
    ELSE IF StyleEq(other, rst)
         THEN [kind |-> "ArithmeticError", values |-> {}]
    ELSE [kind |-> "Style",
          values |-> StyleInit(IterSet(self.values) \o IterSet(other.values)).values]

\* Style.__or__; rst is the class attribute Style.reset
StyleOr(self, other, rst) ==
    IF other.cls # "Style" THEN [kind |-> "NotImplemented", values |-> {}]
    ELSE IF StyleEq(self, rst) \/ StyleEq(other, rst)
         THEN [kind |-> "ArithmeticError", values |-> {}]
    ELSE [kind |-> "Style",
          values |-> StyleInit(IterSet(self.values) \o IterSet(other.values)).values]

StyleArgs == UNION {[1..n -> StyleCodes] : n \in 0..MaxStyleArgs}

NoResult == [kind |-> "none", values |-> {}]

InitStyle ==
    /\ styleReset = StyleMetaReset
    /\ sx \in {StyleInit(a) : a \in StyleArgs}
    /\ sy \in {StyleInit(a) : a \in StyleArgs} \cup {NotAStyle}
    /\ sres = NoResult
    /\ sout = <<>>
    /\ ccall = <<>> /\ cret = <<>>
    /\ props = <<>> /\ parent = <<>> /\ measureDirty = <<>> /\ paintDirty = <<>>
    /\ measureCache = <<>> /\ renderCache = <<>> /\ last = <<>> /\ nops = 0

\* evaluate sx | sy
OrStep ==
    /\ sres.kind = "none"
    /\ sres' = StyleOr(sx, sy, styleReset)
    /\ UNCHANGED <<sx, sy, styleReset, sout, colorVars, controlVars>>

\* call build() on the style sx | sy returned
BuildStep ==
    /\ sres.kind = "Style"
    /\ sout = <<>>
    /\ sout' = StyleBuild([cls |-> "Style", values |-> sres.values])
    /\ UNCHANGED <<sx, sy, styleReset, sres, colorVars, controlVars>>

NextStyle == OrStep \/ BuildStep

SpecStyle == InitStyle /\ [][NextStyle]_vars

(***************************************************************************)
(* Exact arithmetic for Python's float arguments: a float is modelled as   *)
(* the rational it denotes, kept in lowest terms with a positive           *)
(* denominator.                                                            *)
(***************************************************************************)
Abs(x) == IF x < 0 THEN -x ELSE x

RECURSIVE GCD(_, _)
GCD(x, y) == IF y = 0 THEN x ELSE GCD(y, x % y)

Rat(n, d) ==
    LET g == GCD(Abs(n), Abs(d))
        s == IF d < 0 THEN -1 ELSE 1
    IN  [n |-> s * (n \div g), d |-> s * (d \div g)]

RInt(i) == [n |-> i, d |-> 1]

RAdd(x, y) ==
    LET g == GCD(x.d, y.d)
    IN  Rat(x.n * (y.d \div g) + y.n * (x.d \div g), (x.d \div g) * y.d)

RNeg(x) == [n |-> -x.n, d |-> x.d]

RSub(x, y) == RAdd(x, RNeg(y))

RMul(x, y) ==
    LET g1 == GCD(Abs(x.n), y.d)
        g2 == GCD(Abs(y.n), x.d)
    IN  [n |-> (x.n \div g1) * (y.n \div g2), d |-> (x.d \div g2) * (y.d \div g1)]

RDiv(x, y) == RMul(x, IF y.n < 0 THEN [n |-> -y.d, d |-> -y.n]
                                 ELSE [n |-> y.d, d |-> y.n])

RLt(x, y) == RSub(x, y).n < 0

RLe(x, y) == RSub(x, y).n <= 0

\* floor, for any sign (\div rounds toward minus infinity)
RFloor(x) == x.n \div x.d

\* int(x): truncation toward zero
RTrunc(x) == IF x.n >= 0 THEN x.n \div x.d ELSE -((-x.n) \div x.d)

\* x % 1.0
RMod1(x) == RSub(x, RInt(RFloor(x)))

\* int(round(x, 0)): round half to even
RRound(x) ==
    LET f == RFloor(x)
        twice == RSub(RMul(RInt(2), x), RInt(2 * RFloor(x)))  \* 2 * (x - f)
    IN  IF RLt(twice, RInt(1)) THEN f
        ELSE IF RLt(RInt(1), twice) THEN f + 1
        ELSE IF f % 2 = 0 THEN f ELSE f + 1

RMax3(x, y, z) ==
    LET m == IF RLt(x, y) THEN y ELSE x IN IF RLt(m, z) THEN z ELSE m

RMin3(x, y, z) ==
    LET m == IF RLt(y, x) THEN y ELSE x IN IF RLt(z, m) THEN z ELSE m

(***************************************************************************)
(* Python's unbounded non-negative ints, as little-endian sequences of     *)
(* 8-bit limbs without leading zero limbs (a 32-bit packed colour exceeds  *)
(* the 32-bit signed integers of TLC).                                     *)
(***************************************************************************)
RECURSIVE Limbs(_)
Limbs(n) == IF n = 0 THEN <<>> ELSE <<n % 256>> \o Limbs(n \div 256)

RECURSIVE Strip(_)
Strip(x) ==
    IF Len(x) > 0 /\ x[Len(x)] = 0 THEN Strip(SubSeq(x, 1, Len(x) - 1)) ELSE x

LimbAt(x, i) == IF i <= Len(x) THEN x[i] ELSE 0

RECURSIVE AddFrom(_, _, _, _)
AddFrom(x, y, i, carry) ==
    IF i > Len(x) /\ i > Len(y)
    THEN (IF carry = 0 THEN <<>> ELSE <<carry>>)
    ELSE LET t == LimbAt(x, i) + LimbAt(y, i) + carry
         IN  <<t % 256>> \o AddFrom(x, y, i + 1, t \div 256)

\* x + y
BigAdd(x, y) == Strip(AddFrom(x, y, 1, 0))

\* x << bits, bits a multiple of 8
ShiftLeft(x, bits) ==
    IF Len(x) = 0 THEN <<>> ELSE [i \in 1..(bits \div 8) |-> 0] \o x

\* x >> bits, bits a multiple of 8
ShiftRight(x, bits) ==
    IF Len(x) <= bits \div 8 THEN <<>> ELSE SubSeq(x, (bits \div 8) + 1, Len(x))

\* x & 0xFF, as a machine integer
AndFF(x) == LimbAt(x, 1)

(***************************************************************************)
(* Color (screen/drawing/color.py)                                         *)
(***************************************************************************)
FromArgbGreenShift16(a, r, g, b) ==
    BigAdd(BigAdd(BigAdd(ShiftLeft(Limbs(RTrunc(RMul(a, RInt(255)))), 24),
                         ShiftLeft(Limbs(r), 16)),
                  ShiftLeft(Limbs(g), 16)),
           Limbs(b))

\* Color.from_argb: a = int(a * 255); (a << 24) + (r << 16) + (g << 8) + b
FromArgb(a, r, g, b) ==
    BigAdd(BigAdd(BigAdd(ShiftLeft(Limbs(RTrunc(RMul(a, RInt(255)))), 24),
                         ShiftLeft(Limbs(r), 16)),
                  ShiftLeft(Limbs(g), 8)),
           Limbs(b))

\* Color.from_rgb
FromRgb(r, g, b) == FromArgb(RInt(1), r, g, b)

\* Color.a: (value >> 24 & 0xFF) / 255
ColorA(value) == Rat(AndFF(ShiftRight(value, 24)), 255)

\* Color.r
ColorR(value) == AndFF(ShiftRight(value, 16))

\* Color.g
ColorG(value) == AndFF(ShiftRight(value, 8))

\* Color.b
ColorB(value) == AndFF(value)

\* Color.__eq__
ColorEq(v1, v2) == v1 = v2

\* utils.interpolate(a, b, p): the point p along the line from a to b
Interpolate(a, b, p) == RAdd(a, RMul(RSub(b, a), p))

\* Color._interpolate_rgb
InterpolateRgb(c1, c2, p) ==
    FromRgb(RTrunc(Interpolate(RInt(ColorR(c1)), RInt(ColorR(c2)), p)),
            RTrunc(Interpolate(RInt(ColorG(c1)), RInt(ColorG(c2)), p)),
            RTrunc(Interpolate(RInt(ColorB(c1)), RInt(ColorB(c2)), p)))

(***************************************************************************)
(* The colorsys functions color.py calls, on exact rationals.  A local     *)
(* variable of the Python code is bound as  v \in {e}  and the result      *)
(* taken out of the one-element set with The, so that e is evaluated once. *)
(***************************************************************************)
The(S) == CHOOSE x \in S : TRUE

\* colorsys.rgb_to_hls(r, g, b) -> <<h, l, s>>
RgbToHls(r, g, b) ==
    The({ IF minc = maxc
          THEN <<RInt(0), RDiv(RAdd(maxc, minc), RInt(2)), RInt(0)>>
          ELSE The({
              LET s == IF RLe(l, Rat(1, 2))
                       THEN RDiv(rangec, sumc)
                       ELSE RDiv(rangec, RSub(RSub(RInt(2), maxc), minc))
                  rc == RDiv(RSub(maxc, r), rangec)
                  gc == RDiv(RSub(maxc, g), rangec)
                  bc == RDiv(RSub(maxc, b), rangec)
                  h == IF r = maxc THEN RSub(bc, gc)
                       ELSE IF g = maxc THEN RSub(RAdd(RInt(2), rc), bc)
                       ELSE RSub(RAdd(RInt(4), gc), rc)
              IN  <<RMod1(RDiv(h, RInt(6))), l, s>>
              : sumc \in {RAdd(maxc, minc)}, rangec \in {RSub(maxc, minc)},
                l \in {RDiv(RAdd(maxc, minc), RInt(2))} })
        : maxc \in {RMax3(r, g, b)}, minc \in {RMin3(r, g, b)} })

\* colorsys._v(m1, m2, hue)
HlsV(m1, m2, hue0) ==
    The({ IF RLt(hue, Rat(1, 6))
          THEN RAdd(m1, RMul(RMul(RSub(m2, m1), hue), RInt(6)))
          ELSE IF RLt(hue, Rat(1, 2)) THEN m2
          ELSE IF RLt(hue, Rat(2, 3))
          THEN RAdd(m1, RMul(RMul(RSub(m2, m1), RSub(Rat(2, 3), hue)), RInt(6)))
          ELSE m1
        : hue \in {RMod1(hue0)} })

\* colorsys.hls_to_rgb(h, l, s) -> <<r, g, b>>
HlsToRgb(h, l, s) ==
    IF s = RInt(0) THEN <<l, l, l>>
    ELSE The({ The({ <<HlsV(m1, m2, RAdd(h, Rat(1, 3))), HlsV(m1, m2, h),
                       HlsV(m1, m2, RSub(h, Rat(1, 3)))>>
                   : m1 \in {RSub(RMul(RInt(2), l), m2)} })
             : m2 \in {IF RLe(l, Rat(1, 2))
                       THEN RMul(l, RAdd(RInt(1), s))
                       ELSE RSub(RAdd(l, s), RMul(l, s))} })

\* colorsys.rgb_to_hsv(r, g, b) -> <<h, s, v>>
RgbToHsv(r, g, b) ==
    The({ IF minc = maxc THEN <<RInt(0), RInt(0), maxc>>
          ELSE The({
              LET s == RDiv(rangec, maxc)
                  rc == RDiv(RSub(maxc, r), rangec)
                  gc == RDiv(RSub(maxc, g), rangec)
                  bc == RDiv(RSub(maxc, b), rangec)
                  h == IF r = maxc THEN RSub(bc, gc)
                       ELSE IF g = maxc THEN RSub(RAdd(RInt(2), rc), bc)
                       ELSE RSub(RAdd(RInt(4), gc), rc)
              IN  <<RMod1(RDiv(h, RInt(6))), s, maxc>>
              : rangec \in {RSub(maxc, minc)} })
        : maxc \in {RMax3(r, g, b)}, minc \in {RMin3(r, g, b)} })

\* colorsys.hsv_to_rgb(h, s, v) -> <<r, g, b>>
HsvToRgb(h, s, v) ==
    IF s = RInt(0) THEN <<v, v, v>>
    ELSE The({ The({
             LET p == RMul(v, RSub(RInt(1), s))
                 q == RMul(v, RSub(RInt(1), RMul(s, f)))
                 t == RMul(v, RSub(RInt(1), RMul(s, RSub(RInt(1), f))))
                 i == i0 % 6
             IN  CASE i = 0 -> <<v, t, p>>
                   [] i = 1 -> <<q, v, p>>
                   [] i = 2 -> <<p, v, t>>
                   [] i = 3 -> <<p, q, v>>
                   [] i = 4 -> <<t, p, v>>
                   [] i = 5 -> <<v, p, q>>
             : f \in {RSub(RMul(h, RInt(6)), RInt(i0))} })
           : i0 \in {RTrunc(RMul(h, RInt(6)))} })

\* Color._rgb_to_hsl(r, g, b) -> <<h, s, l>>, h in whole degrees
RgbToHsl(r, g, b) ==
    The({ <<RTrunc(RMul(hls[1], RInt(360))), hls[3], hls[2]>>
        : hls \in {RgbToHls(Rat(r, 255), Rat(g, 255), Rat(b, 255))} })

\* Color._hsl_to_rgb(h, s, l) -> <<r, g, b>>
HslToRgb(h, s, l) ==
    The({ <<RRound(RMul(rgb[1], RInt(255))), RRound(RMul(rgb[2], RInt(255))),
            RRound(RMul(rgb[3], RInt(255)))>>
        : rgb \in {HlsToRgb(Rat(h, 360), l, s)} })

\* Color._rgb_to_hsv(r, g, b) -> <<h, s, v>>, h in whole degrees
RgbToHsvDeg(r, g, b) ==
    The({ <<RTrunc(RMul(hsv[1], RInt(360))), hsv[2], hsv[3]>>
        : hsv \in {RgbToHsv(Rat(r, 255), Rat(g, 255), Rat(b, 255))} })

\* Color._hsv_to_rgb(h, s, v) -> <<r, g, b>>
HsvDegToRgb(h, s, v) ==
    The({ <<RRound(RMul(rgb[1], RInt(255))), RRound(RMul(rgb[2], RInt(255))),
            RRound(RMul(rgb[3], RInt(255)))>>
        : rgb \in {HsvToRgb(Rat(h, 360), s, v)} })

\* Color.from_ahsl
FromAhsl(a, h, s, l) ==
    The({ FromArgb(a, rgb[1], rgb[2], rgb[3]) : rgb \in {HslToRgb(h, s, l)} })

\* Color.from_hsl
FromHsl(h, s, l) == FromAhsl(RInt(1), h, s, l)

\* Color.from_ahsv
FromAhsv(a, h, s, v) ==
    The({ FromArgb(a, rgb[1], rgb[2], rgb[3]) : rgb \in {HsvDegToRgb(h, s, v)} })

\* Color.from_hsv
FromHsv(h, s, v) == FromAhsv(RInt(1), h, s, v)

\* Color._interpolate_hsl
InterpolateHsl(c1, c2, p) ==
    The({ FromHsl(RTrunc(Interpolate(RInt(hsl1[1]), RInt(hsl2[1]), p)),
                  Interpolate(hsl1[2], hsl2[2], p),
                  Interpolate(hsl1[3], hsl2[3], p))
        : hsl1 \in {RgbToHsl(ColorR(c1), ColorG(c1), ColorB(c1))},
          hsl2 \in {RgbToHsl(ColorR(c2), ColorG(c2), ColorB(c2))} })

\* Color._interpolate_hsv
InterpolateHsv(c1, c2, p) ==
    The({ FromHsv(RTrunc(Interpolate(RInt(hsv1[1]), RInt(hsv2[1]), p)),
                  Interpolate(hsv1[2], hsv2[2], p),
                  Interpolate(hsv1[3], hsv2[3], p))
        : hsv1 \in {RgbToHsvDeg(ColorR(c1), ColorG(c1), ColorB(c1))},
          hsv2 \in {RgbToHsvDeg(ColorR(c2), ColorG(c2), ColorB(c2))} })

\* ColorInterpolationMethod
Methods == {"hsl", "hsv", "rgb"}

\* Color.interpolate: method = method or rgb; _interpolation_method_map[method]
ColorInterpolate(c1, c2, p, method) ==
    LET m == IF method = "None" THEN "rgb" ELSE method
    IN  CASE m = "hsl" -> InterpolateHsl(c1, c2, p)
          [] m = "hsv" -> InterpolateHsv(c1, c2, p)
          [] m = "rgb" -> InterpolateRgb(c1, c2, p)

(***************************************************************************)
(* SpecColor: one call of the Color API per behaviour, its arguments drawn *)
(* by Init.                                                                *)
(***************************************************************************)
AlphaDen == 4

PDen == 4

MaxLow == 1

\* channel values tried by from_argb: both ends of [0, 255]
ChanSamples == (0..MaxLow) \cup ((255 - MaxLow)..255)

\* alpha values tried: k / AlphaDen in [0, 1]
AlphaSamples == {Rat(k, AlphaDen) : k \in 0..AlphaDen}

\* points tried along the line: k / PDen in [0, 1]
PSamples == {Rat(k, PDen) : k \in 0..PDen}

\* channel values of the colours given to interpolate
InterpChan == {0, MaxLow, 255}

\* the colours given to interpolate: transparent and opaque ones
InterpColors ==
    {FromArgb(a, r, g, b) : a \in {RInt(0), RInt(1)},
                            r \in InterpChan, g \in InterpChan, b \in {0, 255}}

NoCall ==
    [name |-> "none", a |-> RInt(0), r |-> 0, g |-> 0, b |-> 0,
     c1 |-> <<>>, c2 |-> <<>>, p |-> RInt(0), method |-> "None"]

FromArgbCalls ==
    {[NoCall EXCEPT !.name = "from_argb", !.a = a, !.r = r, !.g = g, !.b = b] :
        a \in AlphaSamples, r \in ChanSamples, g \in ChanSamples, b \in ChanSamples}

\* hsl and hsv are called at the two ends of the line only: there the exact
\* arithmetic of this model and the floats of the program agree, while in
\* between a float can land one unit beside an exact rounding tie
InterpolateCalls ==
    {[NoCall EXCEPT !.name = "interpolate", !.c1 = c1, !.c2 = c2, !.p = p,
                    !.method = m] :
        c1 \in InterpColors, c2 \in InterpColors, p \in PSamples,
        m \in {"rgb", "None"}}
    \cup
    {[NoCall EXCEPT !.name = "interpolate", !.c1 = c1, !.c2 = c2, !.p = p,
                    !.method = m] :
        c1 \in InterpColors, c2 \in InterpColors, p \in {RInt(0), RInt(1)},
        m \in {"hsl", "hsv"}}

NoColor == [kind |-> "none", value |-> <<>>]

InitColor ==
    /\ ccall \in FromArgbCalls \cup InterpolateCalls
    /\ cret = NoColor
    /\ sx = <<>> /\ sy = <<>> /\ styleReset = <<>> /\ sres = <<>> /\ sout = <<>>
    /\ props = <<>> /\ parent = <<>> /\ measureDirty = <<>> /\ paintDirty = <<>>
    /\ measureCache = <<>> /\ renderCache = <<>> /\ last = <<>> /\ nops = 0

\* Color.from_argb(a, r, g, b)
DoFromArgb ==
    /\ ccall.name = "from_argb"
    /\ cret.kind = "none"
    /\ cret' = [kind |-> "Color",
                value |-> FromArgb(ccall.a, ccall.r, ccall.g, ccall.b)]
    /\ UNCHANGED <<ccall, styleVars, controlVars>>

\* Color.interpolate(c1, c2, p, method=method)
DoInterpolate ==
    /\ ccall.name = "interpolate"
    /\ cret.kind = "none"
    /\ cret' = [kind |-> "Color",
                value |-> ColorInterpolate(ccall.c1, ccall.c2, ccall.p, ccall.method)]
    /\ UNCHANGED <<ccall, styleVars, controlVars>>

NextColor == DoFromArgb \/ DoInterpolate

SpecColor == InitColor /\ [][NextColor]_vars

(***************************************************************************)
(* Claims about Style, checked under SpecStyle.                            *)
(***************************************************************************)
DigitVal(c) == CHOOSE d \in 0..9 : DigitChars[d + 1] = c

\* the codes written in the body of an escape sequence; an empty field reads -1
RECURSIVE ParseCodes(_, _, _)
ParseCodes(s, acc, cur) ==
    IF Len(s) = 0 THEN (IF cur = -1 /\ Len(acc) = 0 THEN acc ELSE Append(acc, cur))
    ELSE IF Head(s) = ";" THEN ParseCodes(Tail(s), Append(acc, cur), -1)
    ELSE ParseCodes(Tail(s), acc,
                    (IF cur = -1 THEN 0 ELSE cur * 10) + DigitVal(Head(s)))

StrictlyAscending(q) == \A i \in 1..(Len(q) - 1) : q[i] < q[i + 1]

\* C1: x | y raises ArithmeticError whenever x or y equals the reset style
\* (values exactly {0}), whichever side reset is on, and the failed call leaves
\* the values of both operands and of Style.reset as they were.
C1_ResetRaises ==
    [][(/\ sres.kind = "none" /\ sres'.kind # "none"
        /\ sy.cls = "Style"
        /\ (sx.values = {0} \/ sy.values = {0}))
       => (/\ sres'.kind = "ArithmeticError"
           /\ sx' = sx /\ sy' = sy
           /\ styleReset' = styleReset /\ styleReset'.values = {0})]_vars

\* C1 witness: reset on the left of a non-reset style, and the call has raised
C1_Witness ==
    /\ sres.kind = "ArithmeticError"
    /\ sx.values = {0} /\ sy.cls = "Style" /\ sy.values = {1, 4}

\* C2: for non-reset styles x and y, x | y is a Style whose values are the union
\* of the operands' values, and its build() is ESC [ codes m with the codes of
\* that union listed once each, ascending, joined by ";" (Style(1) | Style(4)
\* builds ESC[1;4m, whatever the order of the operands).
C2_UnionBuild ==
    (/\ sres.kind # "none" /\ sy.cls = "Style"
     /\ sx.values # {0} /\ sy.values # {0})
    => /\ sres.kind = "Style"
       /\ sres.values = sx.values \cup sy.values
       /\ sout # <<>> =>
            /\ Len(sout) >= 3
            /\ SubSeq(sout, 1, 2) = <<"ESC", "[">>
            /\ sout[Len(sout)] = "m"
            /\ LET codes == ParseCodes(SubSeq(sout, 3, Len(sout) - 1), <<>>, -1)
               IN  /\ StrictlyAscending(codes)
                   /\ Range(codes) = sx.values \cup sy.values
                   /\ SubSeq(sout, 3, Len(sout) - 1)
                        = Join([i \in 1..Len(codes) |-> Str(codes[i])], <<";">>)
       /\ (sout # <<>> /\ {sx.values, sy.values} = {{1}, {4}})
            => sout = <<"ESC", "[", "1", ";", "4", "m">>

\* C2 witness: overlapping operands given in descending order, built
C2_Witness ==
    /\ sx.values = {4, 21} /\ sy.cls = "Style" /\ sy.values = {1, 4}
    /\ sres.kind = "Style"
    /\ sout = <<"ESC", "[", "1", ";", "4", ";", "2", "1", "m">>

(***************************************************************************)
(* Claims about Color, checked under SpecColor.                            *)
(***************************************************************************)
\* |x - y| <= bound, on rationals
RWithin(x, y, bound) == RLe(RSub(x, y), bound) /\ RLe(RSub(y, x), bound)

\* C3: for r, g, b in [0,255] and a in [0,1], c = from_argb(a, r, g, b) has
\* c.r = r, c.g = g, c.b = b and |c.a - a| <= 1/255, and its packed value fits
\* 32 bits.
C3_ArgbRoundTrip ==
    (ccall.name = "from_argb" /\ cret.kind = "Color")
    => /\ ColorR(cret.value) = ccall.r
       /\ ColorG(cret.value) = ccall.g
       /\ ColorB(cret.value) = ccall.b
       /\ RWithin(ColorA(cret.value), ccall.a, Rat(1, 255))
       /\ Len(cret.value) <= 4

\* C3 witness: full channels next to small ones, and an alpha (3/4) that is no
\* multiple of 1/255
C3_Witness ==
    /\ ccall.name = "from_argb" /\ cret.kind = "Color"
    /\ ccall.r = 255 /\ ccall.g = 254 /\ ccall.b = 1 /\ ccall.a = Rat(3, 4)
    /\ cret.value = <<1, 254, 255, 191>>

\* C4: for all colours c1, c2 (any alpha) and each method, interpolate(c1, c2, 0)
\* equals c1 and interpolate(c1, c2, 1) equals c2 on the full packed value.
C4_InterpolateEndpoints ==
    (ccall.name = "interpolate" /\ cret.kind = "Color")
    => /\ ccall.p = RInt(0) => ColorEq(cret.value, ccall.c1)
       /\ ccall.p = RInt(1) => ColorEq(cret.value, ccall.c2)

\* the integer k is a nearest integer to the rational x
Nearest(k, x) == RWithin(RInt(k), x, Rat(1, 2))

\* C5: in RGB interpolation each channel of interpolate(c1, c2, p) is the linear
\* interpolation of the channels of c1 and c2 rounded to the nearest integer.
C5_RgbRoundsToNearest ==
    (ccall.name = "interpolate" /\ ccall.method \in {"rgb", "None"}
     /\ cret.kind = "Color")
    => /\ Nearest(ColorR(cret.value),
                  Interpolate(RInt(ColorR(ccall.c1)), RInt(ColorR(ccall.c2)), ccall.p))
       /\ Nearest(ColorG(cret.value),
                  Interpolate(RInt(ColorG(ccall.c1)), RInt(ColorG(ccall.c2)), ccall.p))
       /\ Nearest(ColorB(cret.value),
                  Interpolate(RInt(ColorB(ccall.c1)), RInt(ColorB(ccall.c2)), ccall.p))

(***************************************************************************)
(* Controls (screen/controls/stack.py, screen/controls/popup.py).          *)
(* The property descriptor, the Control base class, the primitives and     *)
(* screen.utils are not among the sources: they follow the design          *)
(* document (sections 3, 4.1, 4.2 and 5).                                  *)
(***************************************************************************)
MaxOps == 3

MaxChildren == 2

\* the controls constructed: two stacks, a pop-up and two fixed-size leaves
Controls == 1..5

Kind(c) ==
    CASE c \in {1, 2} -> "Stack"
      [] c = 3 -> "Popup"
      [] OTHER -> "Fixed"

\* the natural <<height, width>> of a fixed-size leaf
FixedSize(c) == IF c = 4 THEN <<1, 3>> ELSE <<2, 5>>

\* Python values: None is defined above; the others carry their type
StrVal(chars) == [t |-> "str", v |-> chars]

IntVal(i) == [t |-> "int", v |-> i]

ListVal(cs) == [t |-> "list", v |-> cs]

BulletNone == [t |-> "Bullet", v |-> "none"]

OrientationHorizontal == [t |-> "Orientation", v |-> "horizontal"]

OrientationVertical == [t |-> "Orientation", v |-> "vertical"]

PlacementCursor == [t |-> "Placement", v |-> "cursor"]

\* screen.utils.len on a string
UtilsLen(x) == Len(x.v)

IsStr(x) == x.t = "str"

BulletInvalidateMeasureTypesOnly(before, after) ==
    ~(IsStr(before) /\ IsStr(after))

\* _bullet_invalidate_measure(before, after)
BulletInvalidateMeasure(before, after) ==
    ~(IsStr(before) /\ IsStr(after) /\ UtilsLen(before) = UtilsLen(after))

\* property(type, default, nullable, measure rule, paint rule)
Property(type, default, nullable, measure, paint) ==
    [type |-> type, default |-> default, nullable |-> nullable,
     measure |-> measure, paint |-> paint]

StackDeclSpacingNoMeasure ==
    [bullet      |-> Property({"Bullet", "str"}, BulletNone, TRUE,
                              "_bullet_invalidate_measure", "True"),
     children    |-> Property({"list"}, None, FALSE, "True", "True"),
     orientation |-> Property({"Orientation"}, OrientationHorizontal, TRUE,
                              "True", "True"),
     spacing     |-> Property({"int"}, IntVal(0), TRUE, "False", "True")]

\* the property declarations of Stack
StackDecl ==
    [bullet      |-> Property({"Bullet", "str"}, BulletNone, TRUE,
                              "_bullet_invalidate_measure", "True"),
     children    |-> Property({"list"}, None, FALSE, "True", "True"),
     orientation |-> Property({"Orientation"}, OrientationHorizontal, TRUE,
                              "True", "True"),
     spacing     |-> Property({"int"}, IntVal(0), TRUE, "True", "True")]

PopupDeclOffsetRepaints ==
    [horizontal_offset |-> Property({"int"}, IntVal(0), TRUE, "False", "True"),
     placement         |-> Property({"Placement"}, PlacementCursor, TRUE,
                                    "False", "False"),
     vertical_offset   |-> Property({"int"}, IntVal(0), TRUE, "False", "False")]

\* the property declarations of Popup
PopupDecl ==
    [horizontal_offset |-> Property({"int"}, IntVal(0), TRUE, "False", "False"),
     placement         |-> Property({"Placement"}, PlacementCursor, TRUE,
                                    "False", "False"),
     vertical_offset   |-> Property({"int"}, IntVal(0), TRUE, "False", "False")]

\* a fixed-size leaf declares no property
NoDecl == [x \in {} |-> 0]

Decl(c) ==
    CASE Kind(c) = "Stack" -> StackDecl
      [] Kind(c) = "Popup" -> PopupDecl
      [] OTHER -> NoDecl

\* the descriptor's check of a value against the declared type and nullability
TypeOk(decl, value) ==
    IF value = None THEN decl.nullable ELSE value.t \in decl.type

\* a rule is a constant or a predicate over (old, new)
EvalRule(rule, old, new) ==
    CASE rule = "True" -> TRUE
      [] rule = "False" -> FALSE
      [] rule = "_bullet_invalidate_measure" -> BulletInvalidateMeasure(old, new)

\* the strict ancestors of c under the back-references par
RECURSIVE Ancestors(_, _)
Ancestors(par, c) ==
    IF par[c] = 0 THEN {} ELSE {par[c]} \cup Ancestors(par, par[c])

\* the controls a measure-dirty signal from c reaches: c, then its parent, and
\* so on up to and including the first ancestor that is already measure-dirty
RECURSIVE Reached(_, _, _)
Reached(par, dirty, c) ==
    IF par[c] = 0 THEN {c}
    ELSE IF dirty[par[c]] THEN {c, par[c]}
    ELSE {c} \cup Reached(par, dirty, par[c])

\* the children of a control, as a sequence of controls
ChildrenOf(pr, c) ==
    IF Kind(c) = "Stack" /\ pr[c].children.t = "list" THEN pr[c].children.v ELSE <<>>

\* lists a stack may be given as children: controls that are free or already
\* its own, none of them the stack or an ancestor of it, in ascending order
ChildLists(c) ==
    LET ok == {k \in Controls \ ({c} \cup Ancestors(parent, c)) :
                  parent[k] \in {0, c}}
    IN  {Sorted(S) : S \in {T \in SUBSET ok : Cardinality(T) <= MaxChildren}}

\* the values tried for a property, of the declared type or not
Inputs(c, name) ==
    CASE name = "bullet" ->
           {StrVal(<<"*">>), StrVal(<<"#">>), StrVal(<<"*", "*">>), BulletNone,
            IntVal(7)}
      [] name = "children" -> {ListVal(l) : l \in ChildLists(c)} \cup {None}
      [] name = "orientation" ->
           {OrientationHorizontal, OrientationVertical, StrVal(<<"h">>)}
      [] name = "spacing" -> {IntVal(0), IntVal(2), None, StrVal(<<"2">>)}
      [] name = "horizontal_offset" -> {IntVal(1), None, StrVal(<<"1">>)}
      [] name = "placement" -> {PlacementCursor, None, IntVal(0)}
      [] name = "vertical_offset" -> {IntVal(-1), IntVal(0), BulletNone}

NoOp ==
    [op |-> "none", ctl |-> 0, prop |-> "", old |-> None, new |-> None,
     measure |-> FALSE, paint |-> FALSE, dirty |-> FALSE, error |-> "",
     result |-> <<>>]

\* construction: every property at its declared default, no parent, both
\* flags set, nothing cached
InitControls ==
    /\ props = [c \in Controls |->
                  [name \in DOMAIN Decl(c) |-> Decl(c)[name].default]]
    /\ parent = [c \in Controls |-> 0]
    /\ measureDirty = [c \in Controls |-> TRUE]
    /\ paintDirty = [c \in Controls |-> TRUE]
    /\ measureCache = [c \in Controls |-> <<>>]
    /\ renderCache = [c \in Controls |-> <<>>]
    /\ last = NoOp
    /\ nops = 0
    /\ sx = <<>> /\ sy = <<>> /\ styleReset = <<>> /\ sres = <<>> /\ sout = <<>>
    /\ ccall = <<>> /\ cret = <<>>

\* control.name = new, rejected by the descriptor
AssignRejected(c, name, new) ==
    /\ nops < MaxOps
    /\ ~TypeOk(Decl(c)[name], new)
    /\ last' = [NoOp EXCEPT !.op = "assign", !.ctl = c, !.prop = name,
                            !.old = props[c][name], !.new = new,
                            !.error = "TypeConstraintError"]
    /\ nops' = nops + 1
    /\ UNCHANGED <<props, parent, measureDirty, paintDirty, measureCache,
                   renderCache, styleVars, colorVars>>

\* control.name = new, accepted: the value is stored, then the control is told
\* to mark measure and paint dirty as the two rules say
AssignStored(c, name, new) ==
    /\ nops < MaxOps
    /\ TypeOk(Decl(c)[name], new)
    /\ \E m \in {EvalRule(Decl(c)[name].measure, props[c][name], new)},
          p \in {EvalRule(Decl(c)[name].paint, props[c][name], new)},
          hit \in {Reached(parent, measureDirty, c)} :
          /\ props' = [props EXCEPT ![c][name] = new]
          /\ parent' =
               IF name = "children"
               THEN [k \in Controls |->
                       IF new # None /\ k \in Range(new.v) THEN c
                       ELSE IF parent[k] = c THEN 0 ELSE parent[k]]
               ELSE parent
          /\ measureDirty' =
               IF m THEN [k \in Controls |-> measureDirty[k] \/ k \in hit]
               ELSE measureDirty
          /\ measureCache' =
               IF m THEN [k \in Controls |-> IF k \in hit THEN <<>> ELSE measureCache[k]]
               ELSE measureCache
          /\ paintDirty' = IF p THEN [paintDirty EXCEPT ![c] = TRUE] ELSE paintDirty
          /\ renderCache' = IF p THEN [renderCache EXCEPT ![c] = <<>>] ELSE renderCache
          /\ last' = [NoOp EXCEPT !.op = "assign", !.ctl = c, !.prop = name,
                                  !.old = props[c][name], !.new = new,
                                  !.measure = m, !.paint = p]
    /\ nops' = nops + 1
    /\ UNCHANGED <<styleVars, colorVars>>

Assign ==
    \E c \in Controls : \E name \in DOMAIN Decl(c) : \E new \in Inputs(c, name) :
        AssignRejected(c, name, new) \/ AssignStored(c, name, new)

\* Stack.measure_core
StackMeasureCore(c, h, w) == [error |-> "NotImplementedError", result |-> <<>>]

\* Stack.render_core
StackRenderCore(c, h, w) == [error |-> "NotImplementedError", result |-> <<>>]

\* Control.measure_core and Control.render_core, which Popup inherits: abstract
ControlMeasureCore(c, h, w) == [error |-> "NotImplementedError", result |-> <<>>]

ControlRenderCore(c, h, w) == [error |-> "NotImplementedError", result |-> <<>>]

\* a fixed-size leaf returns its size, and paints a surface of the size given
FixedMeasureCore(c, h, w) == [error |-> "", result |-> FixedSize(c)]

FixedRenderCore(c, h, w) == [error |-> "", result |-> <<c, h, w>>]

\* self.measure_core(h, w), resolved on the class of the control
MeasureCore(c, h, w) ==
    CASE Kind(c) = "Stack" -> StackMeasureCore(c, h, w)
      [] Kind(c) = "Popup" -> ControlMeasureCore(c, h, w)
      [] OTHER -> FixedMeasureCore(c, h, w)

\* self.render_core(h, w), resolved on the class of the control
RenderCore(c, h, w) ==
    CASE Kind(c) = "Stack" -> StackRenderCore(c, h, w)
      [] Kind(c) = "Popup" -> ControlRenderCore(c, h, w)
      [] OTHER -> FixedRenderCore(c, h, w)

\* the extents the caller has available
Extents == {<<24, 80>>}

\* control.measure(h, w)
Measure ==
    \E c \in Controls : \E hw \in Extents :
        /\ nops < MaxOps
        /\ nops' = nops + 1
        /\ IF ~measureDirty[c]
           THEN /\ last' = [NoOp EXCEPT !.op = "measure", !.ctl = c,
                                        !.result = measureCache[c]]
                /\ UNCHANGED <<measureDirty, measureCache>>
           ELSE \E r \in {MeasureCore(c, hw[1], hw[2])} :
                /\ last' = [NoOp EXCEPT !.op = "measure", !.ctl = c, !.dirty = TRUE,
                                        !.error = r.error, !.result = r.result]
                /\ IF r.error = ""
                   THEN /\ measureCache' = [measureCache EXCEPT ![c] = r.result]
                        /\ measureDirty' = [measureDirty EXCEPT ![c] = FALSE]
                   ELSE UNCHANGED <<measureDirty, measureCache>>
        /\ UNCHANGED <<props, parent, paintDirty, renderCache, styleVars, colorVars>>

\* control.render(h, w)
Render ==
    \E c \in Controls : \E hw \in Extents :
        /\ nops < MaxOps
        /\ nops' = nops + 1
        /\ IF ~paintDirty[c]
           THEN /\ last' = [NoOp EXCEPT !.op = "render", !.ctl = c,
                                        !.result = renderCache[c]]
                /\ UNCHANGED <<paintDirty, renderCache>>
           ELSE \E r \in {RenderCore(c, hw[1], hw[2])} :
                /\ last' = [NoOp EXCEPT !.op = "render", !.ctl = c, !.dirty = TRUE,
                                        !.error = r.error, !.result = r.result]
                /\ IF r.error = ""
                   THEN /\ renderCache' = [renderCache EXCEPT ![c] = r.result]
                        /\ paintDirty' = [paintDirty EXCEPT ![c] = FALSE]
                   ELSE UNCHANGED <<paintDirty, renderCache>>
        /\ UNCHANGED <<props, parent, measureDirty, measureCache, styleVars, colorVars>>

NextControls == Assign \/ Measure \/ Render

SpecControls == InitControls /\ [][NextControls]_vars

(***************************************************************************)
(* Claims about the controls, checked under SpecControls.                  *)
(***************************************************************************)
\* the step is an accepted assignment control.name = value
Assigned(kind, names) ==
    /\ nops' # nops
    /\ last'.op = "assign" /\ last'.error = ""
    /\ Kind(last'.ctl) = kind /\ last'.prop \in names

\* C6: assigning Stack.bullet a string over a string: with equal lengths the
\* assignment marks paint dirty and does not mark measure dirty (no measure
\* flag changes); with different lengths it marks measure and paint dirty.
\* Either way the new string is stored.
C6_BulletStrings ==
    [][(Assigned("Stack", {"bullet"}) /\ last'.old.t = "str" /\ last'.new.t = "str")
       => (/\ props'[last'.ctl].bullet = last'.new
           /\ last'.paint /\ paintDirty'[last'.ctl]
           /\ Len(last'.old.v) = Len(last'.new.v)
                => (~last'.measure /\ measureDirty' = measureDirty)
           /\ Len(last'.old.v) # Len(last'.new.v)
                => (last'.measure /\ measureDirty'[last'.ctl]))]_vars

\* C6 witness: the bullet "*" has been replaced by "#", without a measure signal
C6_Witness ==
    /\ last.op = "assign" /\ last.prop = "bullet" /\ last.error = ""
    /\ last.old = StrVal(<<"*">>) /\ last.new = StrVal(<<"#">>)
    /\ props[last.ctl].bullet = StrVal(<<"#">>)
    /\ ~last.measure /\ last.paint

\* the <<height, width>> a horizontal stack of fixed-size children is to measure:
\* the tallest child, and the widths plus the spacing between neighbours
RECURSIVE SumWidths(_)
SumWidths(cs) == IF Len(cs) = 0 THEN 0 ELSE FixedSize(Head(cs))[2] + SumWidths(Tail(cs))

StackExtent(cs, spacing) ==
    <<SetMax({FixedSize(cs[i])[1] : i \in DOMAIN cs}),
      SumWidths(cs) + spacing * (Len(cs) - 1)>>

\* C7: measure on a measure-dirty horizontal Stack of n fixed-size children with
\* spacing s returns height = the tallest child and width = the sum of the
\* widths + s * (n - 1), caches that result and clears the measure flag.
C7_StackMeasure ==
    (/\ last.op = "measure" /\ last.dirty /\ Kind(last.ctl) = "Stack"
     /\ props[last.ctl].orientation = OrientationHorizontal
     /\ props[last.ctl].spacing.t = "int"
     /\ Len(ChildrenOf(props, last.ctl)) > 0
     /\ \A k \in Range(ChildrenOf(props, last.ctl)) : Kind(k) = "Fixed")
    => /\ last.error = ""
       /\ last.result = StackExtent(ChildrenOf(props, last.ctl),
                                    props[last.ctl].spacing.v)
       /\ measureCache[last.ctl] = last.result
       /\ ~measureDirty[last.ctl]

\* C8: an accepted assignment to a Popup property stores the value and leaves
\* every measure-dirty and paint-dirty flag, the Popup's and its ancestors', as
\* it was: neither rule fires.
C8_PopupNoInvalidation ==
    [][Assigned("Popup", {"horizontal_offset", "placement", "vertical_offset"})
       => (/\ props'[last'.ctl][last'.prop] = last'.new
           /\ ~last'.measure /\ ~last'.paint
           /\ measureDirty' = measureDirty
           /\ paintDirty' = paintDirty)]_vars

\* C8 witness: a Popup held by a stack has been given a new horizontal offset
C8_Witness ==
    /\ last.op = "assign" /\ last.error = "" /\ Kind(last.ctl) = "Popup"
    /\ last.prop = "horizontal_offset" /\ last.old = IntVal(0)
    /\ props[last.ctl].horizontal_offset = IntVal(1)
    /\ Ancestors(parent, last.ctl) # {}

C10_StoredValuesTyped ==
    \A c \in Controls : \A name \in DOMAIN Decl(c) :
        TypeOk(Decl(c)[name], props[c][name])

====
